---- MODULE Spec2Model ----
(***************************************************************************)
(* Model of the two scripts of the repository:                            *)
(*   src/preprocessor.py          load_raw, adjust_ohlc, reindex_and_fill, *)
(*                                add_log, process_file, main              *)
(*   src/stock_data_downloader.py download_stock_data, load_jobs,          *)
(*                                run_jobs, __main__                       *)
(*                                                                         *)
(* A data frame is a sequence of rows (records), in index order.  A cell  *)
(* is an exact rational [n, d]: d = 0 encodes the IEEE specials, 0/0 is   *)
(* NaN and n/0 an infinity, so that a division by a zero Close and the    *)
(* propagation of missing cells come out as numpy computes them.  The     *)
(* rounding of float64/float32 and of "%.6f" is not modelled.  A date is  *)
(* a day number; day 1 is a Monday.                                       *)
(***************************************************************************)
EXTENDS Integers, Sequences, FiniteSets, TLC

\* ---------------------------------------------------------------- bounds
MaxRows == 2      \* rows of a raw file
MaxDate == 9      \* raw dates are the days 1..MaxDate
MaxFiles == 2     \* files of a preprocessor batch of several files
MaxJobs == 3      \* jobs of a downloader spec file

\* ---------------------------------------------------------------- cells
RECURSIVE Gcd(_, _)
Gcd(a, b) == IF b = 0 THEN a ELSE Gcd(b, a % b)

Abs(x) == IF x < 0 THEN -x ELSE x

Sign(x) == IF x < 0 THEN -1 ELSE IF x = 0 THEN 0 ELSE 1

\* the canonical cell of n/d
Cell(n, d) ==
    IF d = 0 THEN [n |-> Sign(n), d |-> 0]
    ELSE LET g == Gcd(Abs(n), Abs(d))
         IN  [n |-> (Sign(d) * n) \div g, d |-> Abs(d) \div g]

Num(k) == Cell(k, 1)

NaN == Cell(0, 0)

IsNaN(x) == x = NaN

Times(x, y) == Cell(x.n * y.n, x.d * y.d)

Over(x, y) == Cell(x.n * y.d, x.d * y.n)

\* ln(a) - ln(b), kept symbolic
LnDiff(a, b) == [minuend |-> a, subtrahend |-> b]

\* ------------------------------------------------------------ sequences
Range(s) == {s[i] : i \in DOMAIN s}

\* the sequence s as an explicit tuple
Tuple(s) == s \o <<>>

Reverse(s) == Tuple([i \in 1..Len(s) |-> s[Len(s) + 1 - i]])

SetMin(S) == CHOOSE x \in S : \A y \in S : x <= y

SetMax(S) == CHOOSE x \in S : \A y \in S : y <= x

\* the members of the set of integers S, ascending
RECURSIVE Ascending(_)
Ascending(S) ==
    IF S = {} THEN <<>> ELSE <<SetMin(S)>> \o Ascending(S \ {SetMin(S)})

\* -------------------------------------------------------------- load_raw
RawColumns == {"Date", "Open", "High", "Low", "Close", "Adj Close", "Volume"}

\* Index.duplicated(keep="first"): position i repeats an earlier label
duplicated(index) ==
    [i \in 1..Len(index) |-> \E j \in 1..(i - 1) : index[j] = index[i]]

\* df.loc[mask] with a boolean array
RECURSIVE loc(_, _)
loc(df, mask) ==
    IF df = <<>> THEN <<>>
    ELSE (IF Head(mask) THEN <<Head(df)>> ELSE <<>>) \o loc(Tail(df), Tail(mask))

\* sort_index(): ascending by date; numpy's default sort is not stable, so
\* rows of equal date may come out in any order
RECURSIVE sort_index(_, _)
sort_index(rows, left) ==
    IF left = {} THEN {<<>>}
    ELSE LET m == SetMin({rows[j].Date : j \in left})
         IN  UNION {{<<rows[i]>> \o t : t \in sort_index(rows, left \ {i})} :
                        i \in {j \in left : rows[j].Date = m}}

\* The mask of line 20 is computed on df, the frame as read, whose index is
\* still the RangeIndex 0..n-1 of the reader: set_index returns a new frame.
load_raw(path) ==
    IF "Date" \notin path.columns
    THEN {[raised |-> TRUE, exc |-> "ValueError: 'Date' column missing", df |-> <<>>]}
    ELSE LET df   == path.rows
             mask == [i \in 1..Len(df) |-> ~duplicated([k \in 1..Len(df) |-> k - 1])[i]]
         IN  {[raised |-> FALSE, exc |-> "", df |-> loc(s, mask)] :
                  s \in sort_index(df, 1..Len(df))}

\* ----------------------------------------------------------- adjust_ohlc
\* adjust_row with the factor upside down
adjust_row_inverse(r) ==
    LET factor == Over(r.Close, r.AdjClose)
    IN  [date      |-> r.Date,
         open      |-> Times(r.Open, factor),
         high      |-> Times(r.High, factor),
         low       |-> Times(r.Low, factor),
         close     |-> Times(r.Close, factor),
         adj_close |-> r.AdjClose,
         volume    |-> r.Volume]

adjust_row(r) ==
    LET factor == Over(r.AdjClose, r.Close)
    IN  [date      |-> r.Date,
         open      |-> Times(r.Open, factor),
         high      |-> Times(r.High, factor),
         low       |-> Times(r.Low, factor),
         close     |-> Times(r.Close, factor),
         adj_close |-> r.AdjClose,
         volume    |-> r.Volume]

adjust_ohlc(columns, df) ==
    IF ~(RawColumns \ {"Date"} \subseteq columns)
    THEN [raised |-> TRUE, exc |-> "KeyError", df |-> <<>>]
    ELSE [raised |-> FALSE, exc |-> "",
          df |-> Tuple([i \in 1..Len(df) |-> adjust_row(df[i])])]

\* ------------------------------------------------------ reindex_and_fill
max_gap == 2

core == <<"open", "high", "low", "close", "adj_close", "volume">>

IsBusinessDay(d) == (d - 1) % 7 < 5

\* pd.bdate_range(start, end, freq="C"): the Monday-to-Friday days of [start, end]
bdate_range(start, end) == Ascending({d \in start..end : IsBusinessDay(d)})

NaNRow(d) ==
    [date |-> d, open |-> NaN, high |-> NaN, low |-> NaN, close |-> NaN,
     adj_close |-> NaN, volume |-> NaN]

HasDuplicates(index) == \E i, j \in DOMAIN index : i < j /\ index[i] = index[j]

\* reindex as df.loc[full_idx] would do it: every row of each calendar day
RECURSIVE reindex_loc_rows(_, _)
reindex_loc_rows(df, full_idx) ==
    IF full_idx = <<>> THEN <<>>
    ELSE LET IsDay(r) == r.date = Head(full_idx)
         IN  (IF SelectSeq(df, IsDay) = <<>> THEN <<NaNRow(Head(full_idx))>>
              ELSE SelectSeq(df, IsDay)) \o reindex_loc_rows(df, Tail(full_idx))

reindex_loc(df, full_idx) ==
    [raised |-> FALSE, exc |-> "", df |-> reindex_loc_rows(df, full_idx)]

\* df.reindex(full_idx): refuses an index with repeated labels unless there is
\* nothing to look up
reindex(df, full_idx) ==
    LET index == Tuple([i \in 1..Len(df) |-> df[i].date])
    IN  IF index = full_idx
        THEN [raised |-> FALSE, exc |-> "", df |-> df]
        ELSE IF HasDuplicates(index) /\ full_idx # <<>>
        THEN [raised |-> TRUE, exc |-> "ValueError: cannot reindex on an axis with duplicate labels",
              df |-> <<>>]
        ELSE [raised |-> FALSE, exc |-> "",
              df |-> Tuple([k \in 1..Len(full_idx) |->
                        IF \E i \in 1..Len(df) : df[i].date = full_idx[k]
                        THEN df[CHOOSE i \in 1..Len(df) : df[i].date = full_idx[k]]
                        ELSE NaNRow(full_idx[k])])]

\* Series.replace(0, nan)
replace_zero(df) ==
    Tuple([k \in 1..Len(df) |->
        IF df[k].volume = Num(0) THEN [df[k] EXCEPT !.volume = NaN] ELSE df[k]])

\* pandas' pad with a limit, on one column: val is the last value seen,
\* fill_count the cells filled since
RECURSIVE pad(_, _, _, _)
pad(values, limit, val, fill_count) ==
    IF values = <<>> THEN <<>>
    ELSE IF IsNaN(Head(values))
         THEN IF fill_count >= limit
              THEN <<Head(values)>> \o pad(Tail(values), limit, val, fill_count)
              ELSE <<val>> \o pad(Tail(values), limit, val, fill_count + 1)
         ELSE <<Head(values)>> \o pad(Tail(values), limit, Head(values), 0)

ffill_values(values, limit) ==
    IF values = <<>> THEN <<>> ELSE pad(values, limit, Head(values), 0)

bfill_values(values, limit) == Reverse(ffill_values(Reverse(values), limit))

Column(df, c) == Tuple([k \in 1..Len(df) |-> df[k][c]])

\* the frame of df's dates and the columns cols
FromColumns(df, cols) ==
    Tuple([k \in 1..Len(df) |->
        [date |-> df[k].date, open |-> cols.open[k], high |-> cols.high[k],
         low |-> cols.low[k], close |-> cols.close[k],
         adj_close |-> cols.adj_close[k], volume |-> cols.volume[k]]])

ffill(df, limit) ==
    FromColumns(df,
        [open      |-> ffill_values(Column(df, "open"), limit),
         high      |-> ffill_values(Column(df, "high"), limit),
         low       |-> ffill_values(Column(df, "low"), limit),
         close     |-> ffill_values(Column(df, "close"), limit),
         adj_close |-> ffill_values(Column(df, "adj_close"), limit),
         volume    |-> ffill_values(Column(df, "volume"), limit)])

\* bfill left out
bfill_skipped(df, limit) == df

bfill(df, limit) ==
    FromColumns(df,
        [open      |-> bfill_values(Column(df, "open"), limit),
         high      |-> bfill_values(Column(df, "high"), limit),
         low       |-> bfill_values(Column(df, "low"), limit),
         close     |-> bfill_values(Column(df, "close"), limit),
         adj_close |-> bfill_values(Column(df, "adj_close"), limit),
         volume    |-> bfill_values(Column(df, "volume"), limit)])

RowComplete(r) == \A c \in Range(core) : ~IsNaN(r[c])

dropna(df) == SelectSeq(df, RowComplete)

\* the two fills in the other order
fill_calendar_bfill_first(df, limit) == ffill(bfill(replace_zero(df), limit), limit)

\* the calendar rows before the drop
fill_calendar(df, limit) == bfill(ffill(replace_zero(df), limit), limit)

reindex_and_fill(df, limit) ==
    IF df = <<>>
    THEN [raised |-> TRUE, exc |-> "ValueError: Neither start nor end can be NaT",
          full_idx |-> <<>>, reindexed |-> <<>>, filled |-> <<>>, df |-> <<>>]
    ELSE LET dates    == {df[i].date : i \in 1..Len(df)}
             full_idx == bdate_range(SetMin(dates), SetMax(dates))
             re       == reindex(df, full_idx)
             filled   == fill_calendar(re.df, limit)
         IN  IF re.raised
             THEN [raised |-> TRUE, exc |-> re.exc, full_idx |-> full_idx,
                   reindexed |-> <<>>, filled |-> <<>>, df |-> <<>>]
             ELSE [raised |-> FALSE, exc |-> "", full_idx |-> full_idx,
                   reindexed |-> re.df, filled |-> filled, df |-> dropna(filled)]

\* --------------------------------------------------------------- add_log
\* add_log with the difference taken the other way round
add_log_reversed(df) ==
    Tuple([i \in 1..Len(df) |->
        [date |-> df[i].date, open |-> df[i].open, high |-> df[i].high,
         low |-> df[i].low, close |-> df[i].close, adj_close |-> df[i].adj_close,
         volume |-> df[i].volume,
         log_return_1d |-> IF i = 1 THEN NaN
                           ELSE LnDiff(df[i - 1].adj_close, df[i].adj_close)]])

\* np.log(adj_close).diff(): absent on the first row
add_log(df) ==
    Tuple([i \in 1..Len(df) |->
        [date |-> df[i].date, open |-> df[i].open, high |-> df[i].high,
         low |-> df[i].low, close |-> df[i].close, adj_close |-> df[i].adj_close,
         volume |-> df[i].volume,
         log_return_1d |-> IF i = 1 THEN NaN
                           ELSE LnDiff(df[i].adj_close, df[i - 1].adj_close)]])

\* ---------------------------------------------------- process_file, main
VARIABLES
    raw_files,   \* the files of ./data matching *_yahoo* (glob's result, a set)
    pending,     \* main's loop: the sorted files not yet processed
    pc,          \* "main" | "loop" | "done" (the preprocessor); "idle" otherwise
    printed,     \* what the preprocessor printed and warned, in order
    out_dir,     \* ./processed: ticker -> [exists, df]
    last,        \* process_file's intermediate frames for the file last processed
    spec_file,   \* the downloader's spec file: [suffix, json]
    jobs,        \* the list load_jobs returned
    idx,         \* run_jobs: the number of jobs gone through
    trace,       \* the downloader's provider calls, saves, sleeps and prints, in order
    csv_files,   \* the CSV names written under out_dir
    exit_code,   \* the downloader's exit code; -1 while it runs
    dl_pc        \* "main" | "run_jobs" | "exited" (the downloader); "idle" otherwise

pre_vars == <<raw_files, pending, pc, printed, out_dir, last>>

dl_vars == <<spec_file, jobs, idx, trace, csv_files, exit_code, dl_pc>>

vars == <<pre_vars, dl_vars>>

\* path.name is stem_tail; Python compares names by code point, capitals first
NameOrder ==
    << [stem |-> "AAPL", tail |-> "yahoo.xlsx"],
       [stem |-> "aapl", tail |-> "yahoo.csv"],
       [stem |-> "msft", tail |-> "yahoo_2020.csv"] >>

upper(s) == CASE s = "aapl" -> "AAPL" [] s = "msft" -> "MSFT" [] OTHER -> s

\* path.name.split("_")[0].upper()
TickerOf(name) == upper(name.stem)

Tickers == {TickerOf(NameOrder[i]) : i \in DOMAIN NameOrder}

\* sorted(raw_files)
sorted(files) ==
    LET Keep(name) == \E f \in files : f.name = name
        names == SelectSeq(NameOrder, Keep)
    IN  Tuple([i \in 1..Len(names) |-> CHOOSE f \in files : f.name = names[i]])

NoFrames ==
    [loaded |-> <<>>, adjusted |-> <<>>, full_idx |-> <<>>, reindexed |-> <<>>,
     filled |-> <<>>, df |-> <<>>]

\* the body of process_file's try block, after load_raw returned ld: the frame
\* written, or the exception that ends the block
try_block(path, ld) ==
    IF ld.raised
    THEN [saved |-> FALSE, exc |-> ld.exc] @@ NoFrames
    ELSE LET adj == adjust_ohlc(path.columns, ld.df)
         IN  IF adj.raised
             THEN [NoFrames EXCEPT !.loaded = ld.df] @@ [saved |-> FALSE, exc |-> adj.exc]
             ELSE LET rf == reindex_and_fill(adj.df, max_gap)
                  IN  IF rf.raised
                      THEN [saved |-> FALSE, exc |-> rf.exc, loaded |-> ld.df,
                            adjusted |-> adj.df, full_idx |-> rf.full_idx,
                            reindexed |-> <<>>, filled |-> <<>>, df |-> <<>>]
                      ELSE [saved |-> TRUE, exc |-> "", loaded |-> ld.df,
                            adjusted |-> adj.df, full_idx |-> rf.full_idx,
                            reindexed |-> rf.reindexed, filled |-> rf.filled,
                            df |-> add_log(rf.df)]

process_file(path) ==
    \E ld \in load_raw(path) : \E r \in {try_block(path, ld)} :
        LET ticker == TickerOf(path.name)
        IN  /\ last' = [path |-> path] @@ r
            /\ IF r.saved
               THEN /\ out_dir' = [out_dir EXCEPT ![ticker] = [exists |-> TRUE, df |-> r.df]]
                    /\ printed' = Append(printed,
                           [kind |-> "saved", name |-> path.name, ticker |-> ticker,
                            text |-> "", df |-> r.df])
               ELSE /\ out_dir' = out_dir
                    /\ printed' = Append(printed,
                           [kind |-> "warning", name |-> path.name, ticker |-> ticker,
                            text |-> r.exc, df |-> <<>>])

\* main, up to its loop
MainNoFiles ==
    /\ pc = "main"
    /\ raw_files = {}
    /\ printed' = Append(printed, [kind |-> "print", name |-> [stem |-> "", tail |-> ""],
                                   ticker |-> "", text |-> "No raw files found in ./data/",
                                   df |-> <<>>])
    /\ pc' = "done"
    /\ UNCHANGED <<raw_files, pending, out_dir, last, dl_vars>>

MainSort ==
    /\ pc = "main"
    /\ raw_files # {}
    /\ pending' = sorted(raw_files)
    /\ pc' = "loop"
    /\ UNCHANGED <<raw_files, printed, out_dir, last, dl_vars>>

\* a loop whose turn lets the exception of a failed file out of main
MainProcess_uncaught ==
    /\ pc = "loop"
    /\ pending # <<>>
    /\ process_file(Head(pending))
    /\ pending' = IF last'.saved THEN Tail(pending) ELSE <<>>
    /\ pc' = IF pending' = <<>> THEN "done" ELSE "loop"
    /\ UNCHANGED <<raw_files, dl_vars>>

\* one turn of main's loop
MainProcess ==
    /\ pc = "loop"
    /\ pending # <<>>
    /\ process_file(Head(pending))
    /\ pending' = Tail(pending)
    /\ pc' = IF Tail(pending) = <<>> THEN "done" ELSE "loop"
    /\ UNCHANGED <<raw_files, dl_vars>>

\* ------------------------------------------------------- raw file inputs
\* the kinds of row the tables of every shape are made of
RowKinds == {"A", "B", "Z", "N"}

\* the rows of a raw file: two priced rows of different adjustment factor (A,
\* B), a row of zero volume (Z), a row whose Close cell is empty (N), and a
\* row whose Close is 0 (D)
RawRow(d, kind) ==
    CASE kind = "A" -> [Date |-> d, Open |-> Num(2), High |-> Num(4), Low |-> Num(2),
                        Close |-> Num(2), AdjClose |-> Num(1), Volume |-> Num(5)]
      [] kind = "B" -> [Date |-> d, Open |-> Num(6), High |-> Num(9), Low |-> Num(3),
                        Close |-> Num(3), AdjClose |-> Num(2), Volume |-> Num(7)]
      [] kind = "Z" -> [Date |-> d, Open |-> Num(4), High |-> Num(5), Low |-> Num(4),
                        Close |-> Num(4), AdjClose |-> Num(4), Volume |-> Num(0)]
      [] kind = "N" -> [Date |-> d, Open |-> Num(5), High |-> Num(5), Low |-> Num(5),
                        Close |-> NaN, AdjClose |-> Num(5), Volume |-> Num(3)]
      [] kind = "D" -> [Date |-> d, Open |-> Num(4), High |-> Num(4), Low |-> Num(0),
                        Close |-> Num(0), AdjClose |-> Num(4), Volume |-> Num(2)]

RawRows == {RawRow(d, k) : d \in 1..MaxDate, k \in RowKinds}

Tables == UNION {[1..n -> RawRows] : n \in 0..MaxRows}

\* the one-file batches: every table of at most MaxRows rows, read by
\* pd.read_csv (read_excel yields the same frame for an .xlsx of the same cells)
SingleFiles ==
    {{[name |-> NameOrder[2], columns |-> RawColumns, rows |-> t]} : t \in Tables}

\* the files of a batch of several: with and without the needed columns, in
\* and out of order, with a repeated date, with a Close of 0, without rows
SampleTables ==
    { [columns |-> RawColumns \ {"Date"},
       rows |-> <<RawRow(1, "A"), RawRow(2, "B")>>],
      [columns |-> RawColumns \ {"Adj Close"},
       rows |-> <<RawRow(1, "A"), RawRow(2, "B")>>],
      [columns |-> RawColumns, rows |-> <<RawRow(1, "A"), RawRow(2, "B")>>],
      [columns |-> RawColumns, rows |-> <<RawRow(4, "B"), RawRow(1, "A")>>],
      [columns |-> RawColumns, rows |-> <<RawRow(1, "A"), RawRow(1, "B")>>],
      [columns |-> RawColumns, rows |-> <<RawRow(1, "A"), RawRow(2, "D")>>],
      [columns |-> RawColumns, rows |-> <<RawRow(1, "D"), RawRow(3, "B")>>],
      [columns |-> RawColumns, rows |-> <<>>] }

Batches ==
    UNION {{ {[name |-> n, columns |-> c[n].columns, rows |-> c[n].rows] : n \in ns} :
               c \in [ns -> SampleTables]} :
           ns \in {s \in SUBSET Range(NameOrder) : Cardinality(s) <= MaxFiles}}

PreIdle ==
    /\ raw_files = {}
    /\ pending = <<>>
    /\ pc = "idle"
    /\ printed = <<>>
    /\ out_dir = [t \in Tickers |-> [exists |-> FALSE, df |-> <<>>]]
    /\ last = [path |-> [name |-> [stem |-> "", tail |-> ""], columns |-> {}, rows |-> <<>>],
               saved |-> FALSE, exc |-> ""] @@ NoFrames

\* ------------------------------------------------------------ downloader
\* dict.get(key, default)
get(spec, key, default) == IF key \in spec.keys THEN spec[key] ELSE default

None == ""

\* str.lower() on the suffixes of the model
lower(s) == CASE s = ".JSON" -> ".json" [] OTHER -> s

\* what yf.download may do: return rows, return an empty frame, raise
ProviderOutcomes == {"rows", "empty", "raises"}

\* _download_from_yahoo
download_from_yahoo(outcome) ==
    CASE outcome = "raises" -> [raised |-> TRUE, exc |-> "Exception in yf.download"]
      [] outcome = "empty"  -> [raised |-> TRUE, exc |-> "ValueError: No data returned from Yahoo Finance"]
      [] OTHER              -> [raised |-> FALSE, exc |-> ""]

handlers == {"yahoo"}

\* download_stock_data without the check of the date range
download_stock_data_unchecked(start_date, end_date, source, outcome) ==
    IF source \notin handlers
    THEN [raised |-> TRUE, called |-> FALSE, exc |-> "ValueError: Unknown source"]
    ELSE [called |-> TRUE] @@ download_from_yahoo(outcome)

\* download_stock_data: called tells whether the provider was reached
download_stock_data(start_date, end_date, source, outcome) ==
    IF end_date < start_date
    THEN [raised |-> TRUE, called |-> FALSE, exc |-> "ValueError: end_date must be after start_date."]
    ELSE IF source \notin handlers
    THEN [raised |-> TRUE, called |-> FALSE, exc |-> "ValueError: Unknown source"]
    ELSE [called |-> TRUE] @@ download_from_yahoo(outcome)

\* load_jobs comparing the suffix as written
load_jobs_case_sensitive(path) ==
    IF path.suffix \in {".json", ".jsonl"}
    THEN [raised |-> FALSE,
          jobs |-> IF path.json.isdict THEN <<path.json.value>> ELSE path.json.value]
    ELSE [raised |-> TRUE, jobs |-> <<>>]

\* load_jobs
load_jobs(path) ==
    IF lower(path.suffix) \in {".json", ".jsonl"}
    THEN [raised |-> FALSE,
          jobs |-> IF path.json.isdict THEN <<path.json.value>> ELSE path.json.value]
    ELSE [raised |-> TRUE, jobs |-> <<>>]

Event(ev, i, text) == [ev |-> ev, idx |-> i, text |-> text]

\* the name run_jobs saves job spec under
out_name(spec) ==
    IF get(spec, "out", None) # None
    THEN [out |-> spec.out, ticker |-> "", start_date |-> 0, end_date |-> 0, source |-> ""]
    ELSE [out |-> "", ticker |-> get(spec, "ticker", None), start_date |-> spec.start_date,
          end_date |-> spec.end_date, source |-> get(spec, "source", "yahoo")]

\* __main__ up to run_jobs: an exception here is not caught and the
\* interpreter exits with code 1
DlMain ==
    /\ dl_pc = "main"
    /\ LET loaded == load_jobs(spec_file)
       IN  IF loaded.raised
           THEN /\ trace' = Append(trace, Event("uncaught", 0, "ValueError: Unsupported file type; use .json"))
                /\ exit_code' = 1
                /\ dl_pc' = "exited"
                /\ jobs' = jobs
           ELSE IF loaded.jobs = <<>>
           THEN /\ trace' = Append(trace, Event("uncaught", 0, "ValueError: Specification file contains no jobs."))
                /\ exit_code' = 1
                /\ dl_pc' = "exited"
                /\ jobs' = loaded.jobs
           ELSE /\ jobs' = loaded.jobs
                /\ dl_pc' = "run_jobs"
                /\ UNCHANGED <<trace, exit_code>>
    /\ UNCHANGED <<spec_file, idx, csv_files, pre_vars>>

\* one turn of run_jobs' loop; after the last the script ends and exits 0
DlRunJob ==
    /\ dl_pc = "run_jobs"
    /\ idx < Len(jobs)
    /\ \E outcome \in ProviderOutcomes :
        LET i    == idx + 1
            spec == jobs[i]
        IN  IF ~({"start_date", "end_date"} \subseteq spec.keys)
            THEN /\ trace' = Append(trace, Event("failed", i, "KeyError"))
                 /\ csv_files' = csv_files
            ELSE LET r == download_stock_data(spec.start_date, spec.end_date,
                                              get(spec, "source", "yahoo"), outcome)
                     calls == IF r.called THEN <<Event("call", i, "")>> ELSE <<>>
                 IN  IF r.raised
                     THEN /\ trace' = trace \o calls \o <<Event("failed", i, r.exc)>>
                          /\ csv_files' = csv_files
                     ELSE /\ trace' = trace \o calls \o
                                <<Event("saved", i, ""), Event("print", i, "Saved"),
                                  Event("sleep", i, "1")>>
                          /\ csv_files' = csv_files \cup {out_name(spec)}
    /\ idx' = idx + 1
    /\ dl_pc' = IF idx + 1 = Len(jobs) THEN "exited" ELSE "run_jobs"
    /\ exit_code' = IF idx + 1 = Len(jobs) THEN 0 ELSE exit_code
    /\ UNCHANGED <<spec_file, jobs, pre_vars>>

\* ------------------------------------------------------ downloader inputs
JobKinds == {"ok", "ok_out", "bad_range", "bad_source", "no_end"}

Job(kind) ==
    CASE kind = "ok" ->
           [keys |-> {"ticker", "start_date", "end_date"}, ticker |-> "AAPL",
            start_date |-> 1, end_date |-> 3, source |-> "", out |-> ""]
      [] kind = "ok_out" ->
           [keys |-> {"ticker", "start_date", "end_date", "source", "out"}, ticker |-> "MSFT",
            start_date |-> 2, end_date |-> 2, source |-> "yahoo", out |-> "msft.csv"]
      [] kind = "bad_range" ->
           [keys |-> {"ticker", "start_date", "end_date"}, ticker |-> "AAPL",
            start_date |-> 3, end_date |-> 1, source |-> "", out |-> ""]
      [] kind = "bad_source" ->
           [keys |-> {"ticker", "start_date", "end_date", "source"}, ticker |-> "AAPL",
            start_date |-> 1, end_date |-> 2, source |-> "google", out |-> ""]
      [] kind = "no_end" ->
           [keys |-> {"ticker", "start_date"}, ticker |-> "MSFT",
            start_date |-> 1, end_date |-> 0, source |-> "", out |-> ""]

Jobs == {Job(k) : k \in JobKinds}

Suffixes == {".json", ".JSON", ".jsonl", ".csv"}

\* a spec file holds one job object or a list of at most MaxJobs job objects
SpecFiles ==
    {[suffix |-> sf, json |-> [isdict |-> TRUE, value |-> j]] : sf \in Suffixes, j \in Jobs}
    \cup
    {[suffix |-> sf, json |-> [isdict |-> FALSE, value |-> l]] :
        sf \in Suffixes, l \in UNION {[1..n -> Jobs] : n \in 0..MaxJobs}}

DlIdle ==
    /\ spec_file = [suffix |-> "", json |-> [isdict |-> FALSE, value |-> <<>>]]
    /\ jobs = <<>>
    /\ idx = 0
    /\ trace = <<>>
    /\ csv_files = {}
    /\ exit_code = -1
    /\ dl_pc = "idle"

\* -------------------------------------------------------- specifications
InitPre ==
    /\ raw_files \in SingleFiles \cup Batches
    /\ pending = <<>>
    /\ pc = "main"
    /\ printed = <<>>
    /\ out_dir = [t \in Tickers |-> [exists |-> FALSE, df |-> <<>>]]
    /\ last = [path |-> [name |-> [stem |-> "", tail |-> ""], columns |-> {}, rows |-> <<>>],
               saved |-> FALSE, exc |-> ""] @@ NoFrames
    /\ DlIdle

NextPre == MainNoFiles \/ MainSort \/ MainProcess

\* the preprocessor, on every batch of the bounds
SpecPre == InitPre /\ [][NextPre]_vars

InitDl ==
    /\ PreIdle
    /\ spec_file \in SpecFiles
    /\ jobs = <<>>
    /\ idx = 0
    /\ trace = <<>>
    /\ csv_files = {}
    /\ exit_code = -1
    /\ dl_pc = "main"

NextDl == DlMain \/ DlRunJob

\* the downloader, on every spec file of the bounds
SpecDl == InitDl /\ [][NextDl]_vars

\* ------------------------------------------------- preprocessor claims
\* the position of date d in the calendar of the file last processed
CalPos(d) == CHOOSE k \in 1..Len(last.full_idx) : last.full_idx[k] = d

\* calendar day k of the file last processed has no value of column c: the
\* day is not in the file, the cell is empty, or it is a zero volume
Missing(k, c) ==
    \/ IsNaN(last.reindexed[k][c])
    \/ c = "volume" /\ last.reindexed[k][c] = Num(0)

StrictlyAscending(dates) ==
    \A i, j \in 1..Len(dates) : i < j => dates[i] < dates[j]

\* C1 (as claimed): the table load_raw returns for a file with a "Date"
\* column has unique dates in strictly ascending order.
C1_LoadedDatesUnique ==
    (pc \in {"loop", "done"} /\ printed # <<>> /\ "Date" \in last.path.columns)
        => StrictlyAscending([i \in 1..Len(last.loaded) |-> last.loaded[i].Date])

\* C2 (as claimed): any two consecutive rows of a written output are
\* consecutive days of the file's business-day calendar.
C2_NoGapInOutput ==
    last.saved =>
        \A i \in 1..(Len(last.df) - 1) :
            CalPos(last.df[i + 1].date) = CalPos(last.df[i].date) + 1

\* some core column has no value on more than `run` consecutive calendar days
LongRun(run) ==
    \E c \in Range(core) : \E a \in 1..(Len(last.reindexed) - run) :
        \A k \in a..(a + run) : Missing(k, c)

\* C2 (amended): consecutive rows of a written output are consecutive days of
\* the calendar provided no core field lacks a value on more than 4
\* consecutive calendar days.
C2_NoGapUnlessLongRun ==
    (last.saved /\ ~LongRun(4)) =>
        \A i \in 1..(Len(last.df) - 1) :
            CalPos(last.df[i + 1].date) = CalPos(last.df[i].date) + 1

\* a written output where a run of 4 absent days was filled whole
C2_Witness ==
    /\ last.saved
    /\ ~LongRun(4)
    /\ \E a \in 1..(Len(last.reindexed) - 3) :
           \A k \in a..(a + 3) : \A c \in Range(core) : Missing(k, c)
    /\ Len(last.df) = Len(last.full_idx)

\* the raw Open/High/Low/Close of row w scaled by Adj Close / Close
Scaled(w, r) ==
    /\ r.open  = Times(w.Open,  Over(w.AdjClose, w.Close))
    /\ r.high  = Times(w.High,  Over(w.AdjClose, w.Close))
    /\ r.low   = Times(w.Low,   Over(w.AdjClose, w.Close))
    /\ r.close = Times(w.Close, Over(w.AdjClose, w.Close))
    /\ r.close = r.adj_close

\* C7 (as claimed): every output row carries the raw prices of its date
\* scaled by Adj Close / Close, and its close equals its adj_close.
C7_EveryRowScaled ==
    last.saved =>
        \A i \in 1..Len(last.df) :
            \E j \in 1..Len(last.path.rows) :
                /\ last.path.rows[j].Date = last.df[i].date
                /\ Scaled(last.path.rows[j], last.df[i])

\* raw row w has all five prices, and a Close to divide by
Priced(w) ==
    /\ ~IsNaN(w.Open) /\ ~IsNaN(w.High) /\ ~IsNaN(w.Low)
    /\ ~IsNaN(w.Close) /\ ~IsNaN(w.AdjClose)
    /\ w.Close # Num(0)

\* C7 (amended): every output row whose date is a row of the raw file with
\* all five prices present and a non-zero Close carries that row's prices
\* scaled by Adj Close / Close, and its close equals its adj_close.
C7_PricedRowsScaled ==
    last.saved =>
        \A i \in 1..Len(last.df) : \A j \in 1..Len(last.path.rows) :
            (last.path.rows[j].Date = last.df[i].date /\ Priced(last.path.rows[j]))
                => Scaled(last.path.rows[j], last.df[i])

\* an output holding a priced raw row whose factor is not 1, and a filled row
C7_Witness ==
    /\ last.saved
    /\ \E i \in 1..Len(last.df) : \E j \in 1..Len(last.path.rows) :
           /\ last.path.rows[j].Date = last.df[i].date
           /\ Priced(last.path.rows[j])
           /\ last.path.rows[j].AdjClose # last.path.rows[j].Close
    /\ \E i \in 1..Len(last.df) :
           \A j \in 1..Len(last.path.rows) : last.path.rows[j].Date # last.df[i].date

\* C8: the dates of a written output are strictly increasing, none twice.
C8_OutputDatesIncreasing ==
    last.saved => StrictlyAscending([i \in 1..Len(last.df) |-> last.df[i].date])

\* an output of several rows written from a file whose rows are out of order
C8_Witness ==
    /\ last.saved
    /\ Len(last.df) >= 2
    /\ \E i \in 1..(Len(last.path.rows) - 1) :
           last.path.rows[i].Date > last.path.rows[i + 1].Date

\* the calendar days kept: those with every core field after the fill
Kept == {k \in 1..Len(last.filled) : RowComplete(last.filled[k])}

\* C9: log_return_1d is absent on the first output row and on every later
\* row is ln(adj_close) minus ln(adj_close of the previous output row), which
\* is the previous calendar day kept, not the previous calendar day.
C9_LogReturn ==
    last.saved =>
        \A i \in 1..Len(last.df) :
            IF i = 1
            THEN IsNaN(last.df[i].log_return_1d)
            ELSE LET q == CalPos(last.df[i].date)
                     p == SetMax({k \in Kept : k < q})
                 IN  /\ last.df[i].log_return_1d
                            = LnDiff(last.df[i].adj_close, last.df[i - 1].adj_close)
                     /\ last.df[i].log_return_1d
                            = LnDiff(last.filled[q].adj_close, last.filled[p].adj_close)

\* an output with a return taken across a dropped calendar day, between two
\* different prices
C9_Witness ==
    /\ last.saved
    /\ \E i \in 2..Len(last.df) :
           /\ CalPos(last.df[i].date) > CalPos(last.df[i - 1].date) + 1
           /\ last.df[i].adj_close # last.df[i - 1].adj_close

\* the value the bounded fill leaves on calendar day k in column c: the day's
\* own, else that of the last day before it with one if at most 2 days back,
\* else that of the first day after it with one if at most 2 days ahead
Expected(k, c) ==
    LET before == {j \in 1..(k - 1) : ~Missing(j, c)}
        after  == {j \in (k + 1)..Len(last.reindexed) : ~Missing(j, c)}
    IN  IF ~Missing(k, c) THEN last.reindexed[k][c]
        ELSE IF before # {} /\ k - SetMax(before) <= 2
             THEN last.reindexed[SetMax(before)][c]
        ELSE IF after # {} /\ SetMin(after) - k <= 2
             THEN last.reindexed[SetMin(after)][c]
        ELSE NaN

\* C10: forward-fill reaches at most 2 days after an observed value, back-fill
\* then at most 2 days before one, a zero volume counts as missing, and the
\* output is exactly the calendar days left with every core field: no output
\* row has a missing core field or a zero volume.
C10_BoundedFill ==
    last.saved =>
        /\ \A k \in 1..Len(last.filled) : \A c \in Range(core) :
               last.filled[k][c] = Expected(k, c)
        /\ Len(last.df) = Cardinality(Kept)
        /\ \A i \in 1..Len(last.df) :
               /\ CalPos(last.df[i].date) \in Kept
               /\ \A c \in Range(core) :
                      /\ last.df[i][c] = last.filled[CalPos(last.df[i].date)][c]
                      /\ ~IsNaN(last.df[i][c])
               /\ last.df[i].volume # Num(0)

\* a written output whose calendar has a forward-filled day, a back-filled
\* day, a dropped day and a zero volume replaced
C10_Witness ==
    /\ last.saved
    /\ \E k \in 1..Len(last.filled) :
           /\ Missing(k, "close") /\ k > 1 /\ ~Missing(k - 1, "close")
           /\ ~IsNaN(last.filled[k].close)
    /\ \E k \in 1..Len(last.filled) :
           /\ Missing(k, "close") /\ k < Len(last.filled) /\ ~Missing(k + 1, "close")
           /\ k > 2 /\ Missing(k - 1, "close") /\ Missing(k - 2, "close")
           /\ ~IsNaN(last.filled[k].close)
    /\ \E k \in 1..Len(last.filled) : k \notin Kept
    /\ \E k \in 1..Len(last.filled) :
           last.reindexed[k].volume = Num(0) /\ last.filled[k].volume # Num(0)

\* file f, processed on its own, is written whatever order the sort leaves
Processable(f) == \A ld \in load_raw(f) : try_block(f, ld).saved

Printed(kind, name) == {i \in 1..Len(printed) : printed[i].kind = kind /\ printed[i].name = name}

\* C5: at the end of a batch every file without a "Date" column has produced
\* a warning and no write, and every file that is processable on its own has
\* been written under its ticker.
C5_MissingDateIsolated ==
    pc = "done" =>
        \A f \in raw_files :
            /\ "Date" \notin f.columns =>
                   /\ Printed("warning", f.name) # {}
                   /\ Printed("saved", f.name) = {}
            /\ Processable(f) =>
                   \E i \in Printed("saved", f.name) :
                       /\ printed[i].ticker = TickerOf(f.name)
                       /\ \E ld \in load_raw(f) : printed[i].df = try_block(f, ld).df

\* a finished batch in which a file without "Date" was warned about and a
\* file sorted after it was written
C5_Witness ==
    /\ pc = "done"
    /\ \E i, j \in 1..Len(printed) :
           /\ i < j
           /\ printed[i].kind = "warning"
           /\ printed[i].text = "ValueError: 'Date' column missing"
           /\ printed[j].kind = "saved"
           /\ Len(printed[j].df) >= 2

\* --------------------------------------------------- downloader claims
Events(ev, i) == {k \in 1..Len(trace) : trace[k].ev = ev /\ trace[k].idx = i}

\* C3 (as claimed): whatever the spec file, the downloader runs to the end of
\* the batch and exits with code 0, without an uncaught exception.
C3_AlwaysExitsZero ==
    dl_pc = "exited" =>
        /\ exit_code = 0
        /\ \A k \in 1..Len(trace) : trace[k].ev # "uncaught"

\* the spec files load_jobs accepts, and a job to run in them
Runnable(f) ==
    /\ f.suffix \in {".json", ".JSON", ".jsonl"}
    /\ f.json.isdict \/ f.json.value # <<>>

\* C3 (amended): for a .json/.jsonl spec file with at least one job, every
\* per-job failure is non-fatal: the downloader goes through every job and
\* exits with code 0.  For an unsupported spec file type or an empty job list
\* an uncaught ValueError ends it with code 1 before any job is attempted.
C3_ExitsZeroOnceJobsLoaded ==
    /\ dl_pc = "run_jobs" => Runnable(spec_file)
    /\ dl_pc = "exited" =>
           IF Runnable(spec_file)
           THEN /\ exit_code = 0
                /\ idx = Len(jobs)
                /\ jobs = IF spec_file.json.isdict THEN <<spec_file.json.value>>
                          ELSE spec_file.json.value
                /\ \A i \in 1..Len(jobs) : Events("saved", i) \cup Events("failed", i) # {}
                /\ \A k \in 1..Len(trace) : trace[k].ev # "uncaught"
           ELSE /\ exit_code = 1
                /\ idx = 0
                /\ Len(trace) = 1 /\ trace[1].ev = "uncaught"

\* a run that exits 0 after a job failed before the provider, a job failed on
\* an empty response and a job was saved, from a spec file named in capitals
C3_Witness ==
    /\ dl_pc = "exited"
    /\ exit_code = 0
    /\ spec_file.suffix = ".JSON"
    /\ \E k \in 1..Len(trace) :
           trace[k].ev = "failed" /\ trace[k].text = "ValueError: Unknown source"
    /\ \E k \in 1..Len(trace) :
           trace[k].ev = "failed"
           /\ trace[k].text = "ValueError: No data returned from Yahoo Finance"
    /\ \E k \in 1..Len(trace) : trace[k].ev = "saved"

\* C4 (as claimed): before the provider is called for job i+1 a sleep has
\* followed job i, whether job i succeeded or failed.
C4_SleepBetweenJobs ==
    \A k \in 1..Len(trace) :
        (trace[k].ev = "call" /\ trace[k].idx > 1)
            => \E m \in 1..(k - 1) : trace[m].ev = "sleep" /\ trace[m].idx = trace[k].idx - 1

BadRange(spec) ==
    /\ {"start_date", "end_date"} \subseteq spec.keys
    /\ spec.end_date < spec.start_date

\* C6: at the end of run_jobs, for a job whose end_date is before its
\* start_date the provider was not called, nothing was saved and the failure
\* was logged; every other job was attempted, in list order, and saved under
\* its name when its download succeeded.
C6_BadRangeFailsThatJobOnly ==
    (dl_pc = "exited" /\ exit_code = 0) =>
        /\ \A i \in 1..Len(jobs) :
               IF BadRange(jobs[i])
               THEN /\ Events("call", i) = {}
                    /\ Events("saved", i) = {}
                    /\ \E k \in Events("failed", i) :
                           trace[k].text = "ValueError: end_date must be after start_date."
               ELSE /\ Events("saved", i) \cup Events("failed", i) # {}
                    /\ (Events("call", i) # {} /\ Events("failed", i) = {})
                           => (Events("saved", i) # {} /\ out_name(jobs[i]) \in csv_files)
        /\ \A k, m \in 1..Len(trace) : k < m => trace[k].idx <= trace[m].idx

\* a finished run with a job of inverted dates between two jobs that were saved
C6_Witness ==
    /\ dl_pc = "exited"
    /\ exit_code = 0
    /\ \E i \in 2..(Len(jobs) - 1) :
           /\ BadRange(jobs[i])
           /\ Events("saved", i - 1) # {}
           /\ Events("saved", i + 1) # {}

====
